---- MODULE Spec2Model ----
(***************************************************************************)
(* TranslateAnyPDF client: the request helper make_api_request, the job    *)
(* driver translate_pdf (submit, poll, download) and analyze_pdf_main of   *)
(* app.py, the loading of the batch script batch_translate_test.py and the *)
(* body of its run_batch_translation_test.                                 *)
(*                                                                         *)
(* The remote service and the file system are the environment: every HTTP  *)
(* request and every file operation draws its outcome from a bounded set.  *)
(***************************************************************************)
EXTENDS Integers, Sequences, FiniteSets, TLC

(***************************************************************************)
(* Program constants                                                       *)
(***************************************************************************)
\* make_api_request(..., attempt=1, max_attempts=3)
max_attempts == 3
\* time.sleep(5*attempt)
backoff_unit == 5
\* max_polls = 60
max_polls == 60

\* the status code of "return None, None"
NoCode == 0

(***************************************************************************)
(* Python values of a parsed JSON body.  A value is a record               *)
(*   kind: "none"    None                                                  *)
(*         "empty"   a falsy JSON value other than null ({}, [], 0, "")    *)
(*         "nondict" a truthy JSON value that is not an object             *)
(*         "dict"    a non-empty JSON object                               *)
(* with the three keys the driver reads; Absent is a missing key.          *)
(***************************************************************************)
Absent == "<absent>"

PyValue(k, j, s, u) == [kind |-> k, job_id |-> j, status |-> s, download_url |-> u]

PyNone == PyValue("none", Absent, Absent, Absent)

TerminalFailures ==
    {"error_tier_limit_exceeded", "error_job_not_found",
     "error_missing_estimation_data", "failed", "enqueue_failed"}

JobIds == {"j1", "j2"}
Statuses == {Absent, "", "processing", "completed"} \cup TerminalFailures
Urls == {Absent, "", "https://cdn/x.pdf"}

\* Raw response bodies the service may send: non-JSON text, the JSON
\* literal null, a falsy JSON value, a truthy non-object, and objects shaped
\* like a submission answer or like a status answer.
RawBodies ==
    {[kind |-> k, job_id |-> Absent, status |-> Absent, download_url |-> Absent] :
        k \in {"text", "null", "empty", "nondict"}}
    \cup {PyValue("dict", j, s, Absent) :
            j \in JobIds \cup {Absent, ""}, s \in {Absent, "", "processing"}}
    \cup {PyValue("dict", Absent, s, u) : s \in Statuses, u \in Urls}

StatusCodes == {200, 202, 302, 400, 401, 403, 429, 500}

\* What one requests.request call can do.
HttpOutcomes ==
    {[kind |-> k, code |-> NoCode, raw |-> PyNone] :
        k \in {"timeout", "connection_error", "other_exception"}}
    \cup {[kind |-> "response", code |-> c, raw |-> b] :
            c \in StatusCodes, b \in RawBodies}

NoOutcome == [kind |-> "nothing", code |-> NoCode, raw |-> PyNone]

\* response.json(), with "except ValueError: response_json = None"
ParseJson(raw) == IF raw.kind \in {"text", "null"} THEN PyNone ELSE raw

\* Python truthiness of a parsed body
Truthy(v) == v.kind \in {"nondict", "dict"}

\* v.get(key) exists: v is an object
HasGet(v) == v.kind \in {"empty", "dict"}

\* truthiness of v.get(key) for a string field
FieldSet(x) == x # Absent /\ x # ""


(***************************************************************************)
(* State                                                                   *)
(***************************************************************************)
VARIABLES
    pc,            \* position in translate_pdf: start, request, returned, download, done
    pdfState,      \* the input document: missing, readable, unreadable
    f_pos,         \* the upload file object f: closed, or its read offset (0, eof)
    phase,         \* which call make_api_request is serving: none, submit, poll
    attempt,       \* make_api_request's attempt parameter
    callReqs,      \* HTTP requests issued by the current logical helper call
    callWaits,     \* time.sleep durations of the current logical helper call
    callUploads,   \* file payload sent by each HTTP request of the current call
    lastOutcome,   \* what the last HTTP request of the current call did
    ret,           \* what make_api_request returned to translate_pdf
    submitCalls,   \* logical submission calls made
    submitResp,    \* the HTTP outcome the submission call ended on
    job_id,        \* translate_pdf's job_id
    i,             \* the poll loop's index
    polls,         \* logical status calls made
    pollWaits,     \* time.sleep(poll_interval_seconds) calls made
    statusJobs,    \* job ids that status requests were issued for
    finalSeen,     \* the first status answer with 'completed' or a terminal failure
    reqsAfterFinal,       \* status HTTP requests issued after that answer
    download_url,  \* translate_pdf's download_url
    downloads,     \* requests.get(download_url) calls made
    dlResp,        \* what the download did
    outfile,       \* content of the file at output_path
    writes,        \* times output_path was opened for writing
    result,        \* translate_pdf's outcome: running, True, False, raised
    statusHttp,    \* status HTTP requests of the run (counted under SpecTotals only)
    b_pc,          \* position in the batch script
    b_in,          \* the batch script's command line and files
    b_names,       \* names bound by "from app import ..."
    b_runs,        \* target languages translate_pdf was called for
    b_prevJobs,    \* job ids the earlier languages' submissions obtained
    a_pc,          \* position in analyze_pdf_main: idle, start, request, returned, done
    a_pdf,         \* the document to analyze: missing, readable, unreadable
    a_attempt,     \* make_api_request's attempt parameter in the analysis call
    a_reqs,        \* HTTP requests sent to /analyze-pdf
    a_calls,       \* logical helper calls made by analyze_pdf_main
    a_last,        \* what the last HTTP request to /analyze-pdf did
    a_ret,         \* what make_api_request returned to analyze_pdf_main
    a_log,         \* analyze_pdf_main's own report: none, not_found, success, api_error, generic
    a_result       \* analyze_pdf_main's outcome: running, returned, raised

tvars == <<pc, pdfState, f_pos, phase, attempt, callReqs, callWaits, callUploads,
           lastOutcome, ret, submitCalls, submitResp, job_id, i, polls, pollWaits,
           statusJobs, finalSeen, reqsAfterFinal, download_url, downloads, dlResp, outfile, writes, result,
           statusHttp>>
bvars == <<b_pc, b_in, b_names, b_runs, b_prevJobs>>
avars == <<a_pc, a_pdf, a_attempt, a_reqs, a_calls, a_last, a_ret, a_log, a_result>>
vars == <<tvars, bvars, avars>>

(***************************************************************************)
(* make_api_request: one attempt                                           *)
(***************************************************************************)
Return(b, c) == [act |-> "return", body |-> b, code |-> c]
Raise == [act |-> "raise", body |-> PyNone, code |-> NoCode]
Retry == [act |-> "retry", body |-> PyNone, code |-> NoCode]
Pending == [act |-> "pending", body |-> PyNone, code |-> NoCode]

\* response_json.get('message') if response_json else response.text[:100]
\* evaluated for the log line of a 403, 429 or other 4xx: raises
\* AttributeError when the parsed body is truthy and has no get
ErrorMessageRaises(json) == Truthy(json) /\ ~HasGet(json)

\* "return None, None", the fall-through of every handled exception
ReturnNoneNone == Return(PyNone, NoCode)

\* the status-code classification of a received response
ClassifyResponse(code, json) ==
    IF code = 401 THEN Return(PyNone, code)
    ELSE IF code = 403 THEN
        (IF ErrorMessageRaises(json) THEN Raise ELSE Return(json, code))
    ELSE IF code = 429 THEN
        (IF ErrorMessageRaises(json) THEN Raise ELSE Return(json, code))
    ELSE IF 400 <= code /\ code < 500 THEN
        (IF ErrorMessageRaises(json) THEN Raise ELSE Return(json, code))
    ELSE IF 500 <= code /\ code < 600 THEN
        \* raise_for_status() raises HTTPError, handled by its except clause
        ReturnNoneNone
    ELSE Return(json, code)

\* OnTimeout retrying after the attempt numbered max_attempts as well
OnTimeoutOffByOne(att) == IF att <= max_attempts THEN Retry ELSE ReturnNoneNone

\* except requests.exceptions.Timeout
OnTimeout(att) == IF att < max_attempts THEN Retry ELSE ReturnNoneNone

\* RetryDelay with a fixed instead of a linear backoff
RetryDelayFixed(att) == backoff_unit

\* the wait before the retry of attempt att
RetryDelay(att) == backoff_unit * att

\* Attempt with connection errors retried like timeouts
AttemptRetryingConnectionError(o, att) ==
    CASE o.kind = "response" -> ClassifyResponse(o.code, ParseJson(o.raw))
      [] o.kind = "timeout" -> OnTimeout(att)
      [] o.kind = "connection_error" -> OnTimeout(att)
      [] o.kind = "other_exception" -> ReturnNoneNone

\* the body of make_api_request for one attempt
Attempt(o, att) ==
    CASE o.kind = "response" -> ClassifyResponse(o.code, ParseJson(o.raw))
      [] o.kind = "timeout" -> OnTimeout(att)
      [] o.kind = "connection_error" -> ReturnNoneNone
      [] o.kind = "other_exception" -> ReturnNoneNone

\* "return make_api_request(..., attempt + 1, max_attempts)": every frame
\* of the recursion hands the inner call's result to its caller
PropagateReturn(r) == r

(***************************************************************************)
(* translate_pdf                                                           *)
(***************************************************************************)
BytesSet == {"B1", "B2"}
NoFile == "<no file>"
Truncated == "<truncated>"

DownloadCodes == {200, 304, 404, 500}
DownloadOutcomes ==
    {[kind |-> k, code |-> NoCode, content |-> ""] : k \in {"timeout", "other_exception"}}
    \cup {[kind |-> "response", code |-> c, content |-> b] :
            c \in DownloadCodes, b \in BytesSet}
NoDownload == [kind |-> "nothing", code |-> NoCode, content |-> ""]

\* mkdir(parents=True, exist_ok=True); open(output_path, 'wb'); write
FsOutcomes == {"ok", "mkdir_error", "open_error", "write_error"}

\* pdf_response.raise_for_status(): HTTPError for 4xx and 5xx
RaiseForStatus(code) == 400 <= code /\ code < 600

\* SubmissionCheck with the acceptance test narrowed to status 202
SubmissionCheckOnly202(r) ==
    IF ~(r.code = 202) THEN "reject"
    ELSE IF ~Truthy(r.body) THEN "reject"
    ELSE IF ~HasGet(r.body) THEN "raise"
    ELSE IF FieldSet(r.body.job_id) /\ FieldSet(r.body.status) THEN "accept"
    ELSE "reject"

\* the condition of "if (status_code == 202 or status_code == 200) and
\* init_response and init_response.get("job_id") and init_response.get("status")"
\* as one of: accept, reject, raise (get on a value that has none)
SubmissionCheck(r) ==
    IF ~(r.code = 202 \/ r.code = 200) THEN "reject"
    ELSE IF ~Truthy(r.body) THEN "reject"
    ELSE IF ~HasGet(r.body) THEN "raise"
    ELSE IF FieldSet(r.body.job_id) /\ FieldSet(r.body.status) THEN "accept"
    ELSE "reject"

\* PollCheck with the loop running one iteration too many
PollCheckOffByOne(r, idx) ==
    IF ~Truthy(r.body) THEN "fail"
    ELSE IF ~HasGet(r.body) THEN "raise"
    ELSE IF r.body.status = "completed" THEN
        (IF FieldSet(r.body.download_url) THEN "download" ELSE "fail")
    ELSE IF r.body.status \in TerminalFailures THEN "fail"
    ELSE IF idx < max_polls THEN "again"
    ELSE "exhausted"

\* PollCheck with 'enqueue_failed' missing from the terminal statuses
PollCheckMissingTerminal(r, idx) ==
    IF ~Truthy(r.body) THEN "fail"
    ELSE IF ~HasGet(r.body) THEN "raise"
    ELSE IF r.body.status = "completed" THEN
        (IF FieldSet(r.body.download_url) THEN "download" ELSE "fail")
    ELSE IF r.body.status \in TerminalFailures \ {"enqueue_failed"} THEN "fail"
    ELSE IF idx < max_polls - 1 THEN "again"
    ELSE "exhausted"

\* PollCheck with a 'completed' answer that has no URL treated as in progress
PollCheckWaitsForUrl(r, idx) ==
    IF ~Truthy(r.body) THEN "fail"
    ELSE IF ~HasGet(r.body) THEN "raise"
    ELSE IF r.body.status = "completed" /\ FieldSet(r.body.download_url) THEN "download"
    ELSE IF r.body.status \in TerminalFailures THEN "fail"
    ELSE IF idx < max_polls - 1 THEN "again"
    ELSE "exhausted"

\* PollCheck with "if not status_response" left out: a call that returned
\* no body counts as a job still in progress
PollCheckIgnoresMissingBody(r, idx) ==
    IF ~Truthy(r.body) THEN (IF idx < max_polls - 1 THEN "again" ELSE "exhausted")
    ELSE IF ~HasGet(r.body) THEN "raise"
    ELSE IF r.body.status = "completed" THEN
        (IF FieldSet(r.body.download_url) THEN "download" ELSE "fail")
    ELSE IF r.body.status \in TerminalFailures THEN "fail"
    ELSE IF idx < max_polls - 1 THEN "again"
    ELSE "exhausted"

\* one iteration of the poll loop on the helper's answer, as one of:
\* fail (return False), raise, download (break), again (next iteration),
\* exhausted (the loop's else clause)
PollCheck(r, idx) ==
    IF ~Truthy(r.body) THEN "fail"
    ELSE IF ~HasGet(r.body) THEN "raise"
    ELSE IF r.body.status = "completed" THEN
        (IF FieldSet(r.body.download_url) THEN "download" ELSE "fail")
    ELSE IF r.body.status \in TerminalFailures THEN "fail"
    ELSE IF idx < max_polls - 1 THEN "again"
    ELSE "exhausted"

\* WaitsAfterPoll with the sleep not guarded by the iteration number
WaitsAfterPollAlways(idx) == TRUE

\* "if i < max_polls - 1: time.sleep(poll_interval_seconds)", the last
\* statement of an iteration that neither returned nor broke out
WaitsAfterPoll(idx) == idx < max_polls - 1

\* AcceptedJobId keeping a job id that an earlier run of the batch obtained
AcceptedJobIdFromEarlierRun(r) ==
    IF b_prevJobs # {} THEN CHOOSE j \in b_prevJobs : TRUE ELSE r.body.job_id

\* job_id = init_response["job_id"]
AcceptedJobId(r) == r.body.job_id

\* entering make_api_request with the default attempt=1
BeginCall(ph) ==
    /\ phase' = ph
    /\ attempt' = 1
    /\ callReqs' = 0
    /\ callWaits' = <<>>
    /\ callUploads' = <<>>
    /\ lastOutcome' = NoOutcome
    /\ ret' = Pending
    /\ pc' = "request"

Finish(res) ==
    /\ result' = res
    /\ pc' = "done"

\* lines 84-95: the existence check, open(pdf_path, 'rb'), the submission call
Start ==
    /\ pc = "start"
    /\ \/ /\ pdfState = "missing"
          /\ Finish("False")
          /\ UNCHANGED <<f_pos, phase, attempt, callReqs, callWaits, callUploads,
                         lastOutcome, ret, submitCalls>>
       \/ /\ pdfState = "unreadable"
          /\ Finish("raised")
          /\ UNCHANGED <<f_pos, phase, attempt, callReqs, callWaits, callUploads,
                         lastOutcome, ret, submitCalls>>
       \/ /\ pdfState = "readable"
          /\ f_pos' = "0"
          /\ submitCalls' = submitCalls + 1
          /\ BeginCall("submit")
          /\ UNCHANGED result
    /\ UNCHANGED <<pdfState, submitResp, job_id, i, polls, pollWaits, statusJobs,
                   finalSeen, reqsAfterFinal, download_url,
                   downloads, dlResp, outfile, writes, statusHttp, bvars, avars>>

\* the payload requests reads from the file object: from its offset to the end
UploadOf(pos) == IF pos = "0" THEN "full" ELSE "nothing"

\* a status answer that carries 'completed' or a terminal failure
IsTerminalBody(b) ==
    /\ b.kind = "dict"
    /\ b.status \in TerminalFailures \cup {"completed"}

\* line 36 and what follows it in make_api_request, for one attempt, the
\* request's outcome drawn from S; counting says whether statusHttp counts
HttpRequestOn(S, counting) ==
    /\ pc = "request"
    /\ \E o \in S :
        LET r == Attempt(o, attempt) IN
        /\ callReqs' = callReqs + 1
        /\ statusHttp' = IF counting /\ phase = "poll" THEN statusHttp + 1 ELSE statusHttp
        /\ lastOutcome' = o
        /\ IF phase = "submit"
             THEN /\ callUploads' = Append(callUploads, UploadOf(f_pos))
                  \* an exception leaving the with block closes the file
                  /\ f_pos' = IF r.act = "raise" THEN "closed" ELSE "eof"
                  /\ UNCHANGED <<statusJobs, reqsAfterFinal>>
             ELSE /\ statusJobs' = statusJobs \cup {job_id}
                  /\ reqsAfterFinal' =
                        IF finalSeen # PyNone THEN reqsAfterFinal + 1 ELSE reqsAfterFinal
                  /\ UNCHANGED <<callUploads, f_pos>>
        /\ \/ /\ r.act = "retry"
              /\ callWaits' = Append(callWaits, RetryDelay(attempt))
              /\ attempt' = attempt + 1
              /\ UNCHANGED <<pc, ret, result, submitResp, finalSeen>>
           \/ /\ r.act = "return"
              /\ ret' = PropagateReturn(r)
              /\ pc' = "returned"
              /\ submitResp' = IF phase = "submit" THEN o ELSE submitResp
              /\ finalSeen' =
                    IF finalSeen = PyNone /\ phase = "poll" /\ IsTerminalBody(r.body)
                    THEN r.body ELSE finalSeen
              /\ UNCHANGED <<attempt, callWaits, result>>
           \/ /\ r.act = "raise"
              /\ ret' = PropagateReturn(r)
              /\ Finish("raised")
              /\ submitResp' = IF phase = "submit" THEN o ELSE submitResp
              /\ UNCHANGED <<attempt, callWaits, finalSeen>>
    /\ UNCHANGED <<pdfState, phase, submitCalls, job_id, i, polls, pollWaits,
                   download_url, downloads, dlResp, outfile, writes,
                   bvars, avars>>

HttpRequest == HttpRequestOn(HttpOutcomes, FALSE)

\* lines 97-112: the acceptance test, then the first status call
AfterSubmit ==
    /\ pc = "returned"
    /\ phase = "submit"
    /\ f_pos' = "closed"
    /\ LET c == SubmissionCheck(ret) IN
       \/ /\ c = "accept"
          /\ job_id' = AcceptedJobId(ret)
          /\ i' = 0
          /\ polls' = polls + 1
          /\ BeginCall("poll")
          /\ UNCHANGED result
       \/ /\ c = "reject"
          /\ Finish("False")
          /\ UNCHANGED <<job_id, i, polls, phase, attempt, callReqs, callWaits,
                         callUploads, lastOutcome, ret>>
       \/ /\ c = "raise"
          /\ Finish("raised")
          /\ UNCHANGED <<job_id, i, polls, phase, attempt, callReqs, callWaits,
                         callUploads, lastOutcome, ret>>
    /\ UNCHANGED <<pdfState, submitCalls, submitResp, pollWaits, statusJobs,
                   finalSeen, reqsAfterFinal, download_url,
                   downloads, dlResp, outfile, writes, statusHttp, bvars, avars>>

\* lines 114-139: one iteration of the poll loop after the helper returned
AfterPoll ==
    /\ pc = "returned"
    /\ phase = "poll"
    /\ LET c == PollCheck(ret, i) IN
       \/ /\ c = "again"
          /\ pollWaits' = IF WaitsAfterPoll(i) THEN pollWaits + 1 ELSE pollWaits
          /\ i' = i + 1
          /\ polls' = polls + 1
          /\ BeginCall("poll")
          /\ UNCHANGED <<result, download_url>>
       \/ /\ c = "download"
          /\ download_url' = ret.body.download_url
          /\ pc' = "download"
          /\ UNCHANGED <<result, i, polls, pollWaits, phase, attempt, callReqs,
                         callWaits, callUploads, lastOutcome, ret>>
       \/ /\ c = "fail"
          /\ Finish("False")
          /\ UNCHANGED <<i, polls, pollWaits, phase, attempt, callReqs, callWaits,
                         callUploads, lastOutcome, ret, download_url>>
       \/ /\ c = "exhausted"
          \* the last iteration runs to its end, then the loop's else clause
          /\ pollWaits' = IF WaitsAfterPoll(i) THEN pollWaits + 1 ELSE pollWaits
          /\ Finish("False")
          /\ UNCHANGED <<i, polls, phase, attempt, callReqs, callWaits,
                         callUploads, lastOutcome, ret, download_url>>
       \/ /\ c = "raise"
          /\ Finish("raised")
          /\ UNCHANGED <<i, polls, pollWaits, phase, attempt, callReqs, callWaits,
                         callUploads, lastOutcome, ret, download_url>>
    /\ UNCHANGED <<pdfState, f_pos, submitCalls, submitResp, job_id, statusJobs,
                   finalSeen, reqsAfterFinal, downloads, dlResp, outfile,
                   writes, statusHttp, bvars, avars>>

\* lines 142-161: the download and the write of the output file
Download ==
    /\ pc = "download"
    /\ \/ /\ ~FieldSet(download_url)
          \* the else branch of "if download_url:"
          /\ Finish("False")
          /\ UNCHANGED <<downloads, dlResp, outfile, writes>>
       \/ /\ FieldSet(download_url)
          /\ downloads' = downloads + 1
          /\ \E d \in DownloadOutcomes :
              /\ dlResp' = d
              /\ \/ /\ d.kind \in {"timeout", "other_exception"}
                    /\ Finish("False")
                    /\ UNCHANGED <<outfile, writes>>
                 \/ /\ d.kind = "response"
                    /\ RaiseForStatus(d.code)
                    /\ Finish("False")
                    /\ UNCHANGED <<outfile, writes>>
                 \/ /\ d.kind = "response"
                    /\ ~RaiseForStatus(d.code)
                    /\ \E fs \in FsOutcomes :
                         \/ /\ fs = "ok"
                            /\ outfile' = d.content
                            /\ writes' = writes + 1
                            /\ Finish("True")
                         \/ /\ fs \in {"mkdir_error", "open_error"}
                            /\ Finish("raised")
                            /\ UNCHANGED <<outfile, writes>>
                         \/ /\ fs = "write_error"
                            /\ outfile' = Truncated
                            /\ writes' = writes + 1
                            /\ Finish("raised")
    /\ UNCHANGED <<pdfState, f_pos, phase, attempt, callReqs, callWaits, callUploads,
                   lastOutcome, ret, submitCalls, submitResp, job_id, i, polls,
                   pollWaits, statusJobs, finalSeen, reqsAfterFinal,
                   download_url, statusHttp, bvars, avars>>

\* the files, translate_pdf's locals and the run's counters before the
\* function's first statement
TState ==
    /\ pdfState \in {"missing", "readable", "unreadable"}
    /\ f_pos = "closed"
    /\ phase = "none"
    /\ attempt = 1
    /\ callReqs = 0
    /\ callWaits = <<>>
    /\ callUploads = <<>>
    /\ lastOutcome = NoOutcome
    /\ ret = Pending
    /\ submitCalls = 0
    /\ submitResp = NoOutcome
    /\ job_id = Absent
    /\ i = 0
    /\ polls = 0
    /\ pollWaits = 0
    /\ statusJobs = {}
    /\ finalSeen = PyNone
    /\ reqsAfterFinal = 0
    /\ download_url = Absent
    /\ downloads = 0
    /\ dlResp = NoDownload
    /\ outfile \in {NoFile, "OLD"}
    /\ writes = 0
    /\ result = "running"
    /\ statusHttp = 0

TInit == pc = "start" /\ TState

(***************************************************************************)
(* batch_translate_test.py                                                 *)
(***************************************************************************)
\* longest CSV modelled
MaxLangs == 2

Langs == {"es", "fr"}

SeqsUpTo(S, n) == UNION {[1..k -> S] : k \in 0..n}

\* the languages CSV: absent, empty (no header line), or a header line
\* followed by rows
CsvFiles ==
    {[exists |-> e, header |-> "", rows |-> <<>>] : e \in BOOLEAN}
    \cup {[exists |-> TRUE, header |-> h, rows |-> r] :
            h \in {"language_code", "code"}, r \in SeqsUpTo(Langs, MaxLangs)}

\* --api_key, --input_pdf and --languages_csv as found at start
BatchInputs == [api_key : BOOLEAN, input_pdf : BOOLEAN, csv : CsvFiles]

NoBatch ==
    [api_key |-> FALSE, input_pdf |-> FALSE,
     csv |-> [exists |-> FALSE, header |-> "", rows |-> <<>>]]

\* the names app.py binds at module level
AppNames ==
    {"os", "time", "requests", "argparse", "logging", "Path", "log",
     "RAPIDAPI_HOST", "BASE_URL", "make_api_request", "translate_pdf",
     "analyze_pdf_main", "main_cli"}

\* from app import translate_pdf, SUPPORTED_TARGET_LANGUAGES
ImportList == <<"translate_pdf", "SUPPORTED_TARGET_LANGUAGES">>

\* the import statement, one name at a time: a name app does not define
\* raises ImportError, which ends the script before anything else runs
ImportFromApp ==
    /\ b_pc = "import"
    /\ LET k == Cardinality(b_names) + 1 IN
       IF ImportList[k] \in AppNames
       THEN /\ b_names' = b_names \cup {ImportList[k]}
            /\ b_pc' = IF k = Len(ImportList) THEN "main" ELSE "import"
       ELSE /\ b_pc' = "ImportError"
            /\ UNCHANGED b_names
    /\ UNCHANGED <<avars, b_in, b_runs, b_prevJobs, tvars>>

\* translate_pdf's locals and the run's counters as a call finds them (p =
\* "start") or as its return leaves them (p = "idle"); ps is the input
\* document at the call's open(), and every language has its own output path
TFrame(p, ps) ==
    /\ pc' = p
    /\ pdfState' = ps
    /\ f_pos' = "closed"
    /\ phase' = "none"
    /\ attempt' = 1
    /\ callReqs' = 0
    /\ callWaits' = <<>>
    /\ callUploads' = <<>>
    /\ lastOutcome' = NoOutcome
    /\ ret' = Pending
    /\ submitCalls' = 0
    /\ submitResp' = NoOutcome
    /\ job_id' = Absent
    /\ i' = 0
    /\ polls' = 0
    /\ pollWaits' = 0
    /\ statusJobs' = {}
    /\ finalSeen' = PyNone
    /\ reqsAfterFinal' = 0
    /\ download_url' = Absent
    /\ downloads' = 0
    /\ dlResp' = NoDownload
    /\ outfile' = NoFile
    /\ writes' = 0
    /\ result' = "running"
    /\ statusHttp' = 0

\* BatchCheck without the test of the CSV's header line
BatchCheckWithoutHeaderTest(in) ==
    IF ~in.api_key THEN "aborted"
    ELSE IF ~in.input_pdf THEN "aborted"
    ELSE IF ~in.csv.exists THEN "aborted"
    ELSE IF in.csv.rows = <<>> THEN "aborted"
    ELSE "loop"

\* lines 25-53 of run_batch_translation_test: the checks of the arguments
\* and the reading of the CSV, each ending the function with a return
BatchCheck(in) ==
    IF ~in.api_key THEN "aborted"
    ELSE IF ~in.input_pdf THEN "aborted"
    ELSE IF ~in.csv.exists THEN "aborted"
    \* an empty file: reader.fieldnames is None, "not in" raises TypeError,
    \* handled by "except Exception"
    ELSE IF in.csv.header = "" THEN "aborted"
    ELSE IF in.csv.header # "language_code" THEN "aborted"
    ELSE IF in.csv.rows = <<>> THEN "aborted"
    ELSE "loop"

BatchValidate ==
    /\ b_pc = "main"
    /\ b_pc' = BatchCheck(b_in)
    /\ UNCHANGED <<avars, b_in, b_names, b_runs, b_prevJobs, tvars>>

\* lines 55-74: the next language of the list, translate_pdf called for it
BatchCall ==
    /\ b_pc = "loop"
    /\ Len(b_runs) < Len(b_in.csv.rows)
    /\ b_runs' = Append(b_runs, b_in.csv.rows[Len(b_runs) + 1])
    /\ b_pc' = "call"
    /\ \E ps \in {"readable", "unreadable"} : TFrame("start", ps)
    /\ UNCHANGED <<avars, b_in, b_names, b_prevJobs>>

\* lines 75-82: translate_pdf returned or raised; either way the loop goes on
BatchReturn ==
    /\ b_pc = "call"
    /\ pc = "done"
    /\ b_prevJobs' = IF job_id = Absent THEN b_prevJobs ELSE b_prevJobs \cup {job_id}
    /\ b_pc' = "loop"
    /\ TFrame("idle", "readable")
    /\ UNCHANGED <<avars, b_in, b_names, b_runs>>

\* line 84: the list is exhausted
BatchFinish ==
    /\ b_pc = "loop"
    /\ Len(b_runs) = Len(b_in.csv.rows)
    /\ b_pc' = "finished"
    /\ UNCHANGED <<avars, b_in, b_names, b_runs, b_prevJobs, tvars>>

Resp(c, b) == [kind |-> "response", code |-> c, raw |-> b]

\* one service behaviour for each branch of make_api_request and of
\* translate_pdf's tests on the helper's answer
BranchOutcomes ==
    {[kind |-> k, code |-> NoCode, raw |-> PyNone] : k \in {"timeout", "connection_error"}}
    \cup {Resp(500, PyValue("text", Absent, Absent, Absent)),
          Resp(401, PyValue("text", Absent, Absent, Absent)),
          Resp(403, PyValue("nondict", Absent, Absent, Absent)),
          Resp(200, PyValue("nondict", Absent, Absent, Absent)),
          Resp(200, PyValue("empty", Absent, Absent, Absent)),
          Resp(202, PyValue("dict", "j1", "processing", Absent)),
          Resp(200, PyValue("dict", "j2", "processing", Absent)),
          Resp(200, PyValue("dict", Absent, "processing", Absent)),
          Resp(429, PyValue("dict", Absent, Absent, Absent)),
          Resp(200, PyValue("dict", Absent, "completed", "https://cdn/x.pdf")),
          Resp(200, PyValue("dict", Absent, "completed", Absent)),
          Resp(200, PyValue("dict", Absent, "failed", Absent))}

\* HttpRequest with the service's behaviours taken from BranchOutcomes
HttpRequestBranch == HttpRequestOn(BranchOutcomes, FALSE)

\* the same, every status HTTP request counted in statusHttp
HttpRequestCounted == HttpRequestOn(BranchOutcomes, TRUE)

(***************************************************************************)
(* analyze_pdf_main                                                        *)
(***************************************************************************)
\* bodies the analysis endpoint may send: kind as above, success the JSON
\* value under the key 'success' (true, false, another value, or no key)
AnalyzeBody(k, sc) == [kind |-> k, success |-> sc]

AnalyzeBodies ==
    {AnalyzeBody(k, Absent) : k \in {"text", "null", "empty", "nondict"}}
    \cup {AnalyzeBody("dict", sc) : sc \in {"true", "false", "other", Absent}}

AnalyzeOutcomes ==
    {[kind |-> k, code |-> NoCode, raw |-> PyNone] :
        k \in {"timeout", "connection_error", "other_exception"}}
    \cup {[kind |-> "response", code |-> c, raw |-> b] :
            c \in StatusCodes, b \in AnalyzeBodies}

\* lines 174-183: the report on the helper's answer, or "raise" where
\* response.get is evaluated on a value that has no get
AnalyzeReport(r) ==
    IF r.code = 200 /\ Truthy(r.body) /\ ~HasGet(r.body) THEN "raise"
    ELSE IF r.code = 200 /\ Truthy(r.body) /\ r.body.success = "true" THEN "success"
    ELSE IF Truthy(r.body) /\ ~HasGet(r.body) THEN "raise"
    ELSE IF Truthy(r.body) /\ r.body.success = "false" THEN "api_error"
    ELSE IF r.code # NoCode THEN "generic"
    ELSE "none"

\* lines 166-172: the existence check, open(pdf_path, 'rb'), the helper call
AnalyzeStart ==
    /\ a_pc = "start"
    /\ \/ /\ a_pdf = "missing"
          /\ a_log' = "not_found"
          /\ a_result' = "returned"
          /\ a_pc' = "done"
          /\ UNCHANGED a_calls
       \/ /\ a_pdf = "unreadable"
          /\ a_result' = "raised"
          /\ a_pc' = "done"
          /\ UNCHANGED <<a_log, a_calls>>
       \/ /\ a_pdf = "readable"
          /\ a_calls' = a_calls + 1
          /\ a_pc' = "request"
          /\ UNCHANGED <<a_log, a_result>>
    /\ UNCHANGED <<a_pdf, a_attempt, a_reqs, a_last, a_ret, tvars, bvars>>

\* make_api_request(api_key, "POST", "/analyze-pdf", files=files), one attempt
AnalyzeRequest ==
    /\ a_pc = "request"
    /\ \E o \in AnalyzeOutcomes :
        LET r == Attempt(o, a_attempt) IN
        /\ a_reqs' = a_reqs + 1
        /\ a_last' = o
        /\ \/ /\ r.act = "retry"
              /\ a_attempt' = a_attempt + 1
              /\ UNCHANGED <<a_pc, a_ret, a_result>>
           \/ /\ r.act = "return"
              /\ a_ret' = PropagateReturn(r)
              /\ a_pc' = "returned"
              /\ UNCHANGED <<a_attempt, a_result>>
           \/ /\ r.act = "raise"
              /\ a_ret' = PropagateReturn(r)
              /\ a_result' = "raised"
              /\ a_pc' = "done"
              /\ UNCHANGED a_attempt
    /\ UNCHANGED <<a_pdf, a_calls, a_log, tvars, bvars>>

\* lines 174-183: the if/elif chain on the helper's answer
AnalyzeAfterCall ==
    /\ a_pc = "returned"
    /\ LET rep == AnalyzeReport(a_ret) IN
       IF rep = "raise"
       THEN /\ a_result' = "raised"
            /\ UNCHANGED a_log
       ELSE /\ a_result' = "returned"
            /\ a_log' = rep
    /\ a_pc' = "done"
    /\ UNCHANGED <<a_pdf, a_attempt, a_reqs, a_calls, a_last, a_ret, tvars, bvars>>

AIdle ==
    /\ a_pc = "idle"
    /\ a_pdf = "missing"
    /\ a_attempt = 1
    /\ a_reqs = 0
    /\ a_calls = 0
    /\ a_last = NoOutcome
    /\ a_ret = Pending
    /\ a_log = "none"
    /\ a_result = "running"

BIdle ==
    /\ b_pc = "idle"
    /\ b_in = NoBatch
    /\ b_names = {}
    /\ b_runs = <<>>
    /\ b_prevJobs = {}

Init == TInit /\ BIdle /\ AIdle

Next == Start \/ HttpRequest \/ AfterSubmit \/ AfterPoll \/ Download

Spec == Init /\ [][Next]_vars

\* the batch script started from the command line; translate_pdf not running
BatchInit ==
    /\ TInit
    /\ pdfState = "missing"
    /\ outfile = NoFile
    /\ b_pc = "import"
    /\ b_in \in BatchInputs
    /\ b_names = {}
    /\ b_runs = <<>>
    /\ b_prevJobs = {}
    /\ AIdle

BatchNext == ImportFromApp

SpecBatch == BatchInit /\ [][BatchNext]_vars

\* run_batch_translation_test entered with the two names of line 7 bound:
\* the function as written, which the script as shipped never reaches
BodyInit ==
    /\ pc = "idle"
    /\ TState
    /\ pdfState = "readable"
    /\ outfile = NoFile
    /\ b_pc = "main"
    /\ b_in \in BatchInputs
    /\ b_names = {ImportList[k] : k \in 1..Len(ImportList)}
    /\ b_runs = <<>>
    /\ b_prevJobs = {}
    /\ AIdle

BodyNext ==
    \/ BatchValidate
    \/ BatchCall
    \/ Start
    \/ HttpRequestBranch
    \/ AfterSubmit
    \/ AfterPoll
    \/ Download
    \/ BatchReturn
    \/ BatchFinish

SpecBatchBody == BodyInit /\ [][BodyNext]_vars

\* translate_pdf with every status HTTP request of the run counted; the
\* program runs on until translate_pdf has returned or raised
TotalsNext == Start \/ HttpRequestCounted \/ AfterSubmit \/ AfterPoll \/ Download

SpecTotals == Init /\ [][TotalsNext]_vars /\ WF_vars(TotalsNext)

\* analyze_pdf_main called from the command line; translate_pdf not running
AnalyzeInit ==
    /\ pc = "idle"
    /\ TState
    /\ pdfState = "missing"
    /\ outfile = NoFile
    /\ BIdle
    /\ a_pc = "start"
    /\ a_pdf \in {"missing", "readable", "unreadable"}
    /\ a_attempt = 1
    /\ a_reqs = 0
    /\ a_calls = 0
    /\ a_last = NoOutcome
    /\ a_ret = Pending
    /\ a_log = "none"
    /\ a_result = "running"

AnalyzeNext == AnalyzeStart \/ AnalyzeRequest \/ AnalyzeAfterCall

SpecAnalyze == AnalyzeInit /\ [][AnalyzeNext]_vars

(***************************************************************************)
(* Vocabulary of the properties, in terms of what the service sent         *)
(***************************************************************************)
\* a parsed body that contains a job id and a status (both non-empty)
HasJobAndStatus(raw) ==
    /\ raw.kind = "dict"
    /\ FieldSet(raw.job_id)
    /\ FieldSet(raw.status)

\* the submission call ended on a response with one of the codes cs and a
\* body containing a job id and a status
SubmissionAnswered(cs) ==
    /\ submitResp.kind = "response"
    /\ submitResp.code \in cs
    /\ HasJobAndStatus(submitResp.raw)

\* the submission call is over and translate_pdf has acted on its result
SubmissionDecided ==
    /\ submitResp # NoOutcome
    /\ ~(pc = "returned" /\ phase = "submit")

\* the last status call returned a body, which the loop has looked at
PollAnswered ==
    /\ phase = "poll"
    /\ ret.act = "return"
    /\ pc # "returned"

\* the last status request was answered 'completed' with a download URL
CompletedWithUrl ==
    /\ phase = "poll"
    /\ lastOutcome.kind = "response"
    /\ lastOutcome.raw.kind = "dict"
    /\ lastOutcome.raw.status = "completed"
    /\ FieldSet(lastOutcome.raw.download_url)

\* the download returned a response that is no error
DownloadReturned ==
    /\ dlResp.kind = "response"
    /\ ~(400 <= dlResp.code /\ dlResp.code < 600)

(***************************************************************************)
(* C1                                                                      *)
(***************************************************************************)
\* C1 (as claimed): with a readable input document, translate_pdf returns
\* True only if the submission was accepted, a status poll returned
\* 'completed' with a non-empty download_url and the download returned
\* without error, the output file then holding exactly the bytes of the
\* download; and every other run returns False.
C1_TrueOnlyAfterAllStepsElseFalse ==
    (pc = "done" /\ pdfState = "readable") =>
        /\ (result = "True") =>
              /\ SubmissionAnswered({200, 202})
              /\ CompletedWithUrl
              /\ DownloadReturned
              /\ outfile = dlResp.content
        /\ (result # "True") => (result = "False")

\* The part of C1 that holds of the code: a True result comes only after
\* the three steps, with the downloaded bytes in the output file.
C1_TrueOnlyAfterAllSteps ==
    (result = "True") =>
        /\ pc = "done"
        /\ SubmissionAnswered({200, 202})
        /\ CompletedWithUrl
        /\ DownloadReturned
        /\ outfile = dlResp.content

(***************************************************************************)
(* C2                                                                      *)
(***************************************************************************)
\* C2 (as claimed): polling starts only after a submission answered 200 or
\* 202 with a body containing a job id and a status; after any other
\* submission outcome translate_pdf returns False, with no status request
\* and no second submission.
C2_OtherSubmissionOutcomeReturnsFalse ==
    SubmissionDecided =>
        /\ (polls > 0) => SubmissionAnswered({200, 202})
        /\ ~SubmissionAnswered({200, 202}) =>
              /\ pc = "done"
              /\ result = "False"
              /\ polls = 0
              /\ statusJobs = {}
              /\ submitCalls = 1

(***************************************************************************)
(* C3                                                                      *)
(***************************************************************************)
\* the run went on to polling: a status call was started, and a run that
\* is over has issued at least one status request
ProceededToPolling ==
    /\ polls >= 1
    /\ (pc = "done") => (statusJobs # {})

\* the run failed at the submission: it is over without success, and no
\* status call was ever started
FailedWithoutPolling ==
    /\ pc = "done"
    /\ result \in {"False", "raised"}
    /\ polls = 0
    /\ statusJobs = {}

\* C3 (as claimed): a submission answered 202 with a body containing job_id
\* and status proceeds to polling; any other combination of status code and
\* body fails immediately with no polling attempted.
C3_Only202ProceedsToPolling ==
    SubmissionDecided =>
        IF SubmissionAnswered({202}) THEN ProceededToPolling ELSE FailedWithoutPolling

\* C3 (amended): a submission answered 200 or 202 with a body containing a
\* (non-empty) job_id and status proceeds to polling, at least one status
\* request being issued; any other combination of status code and body ends
\* the run at once without success and with no polling attempted.
C3_AcceptedProceedsToPolling ==
    SubmissionDecided =>
        IF SubmissionAnswered({200, 202}) THEN ProceededToPolling ELSE FailedWithoutPolling

\* a run whose submission was answered 200 with job id and status, over
\* after at least one status request
C3_Witness ==
    /\ pc = "done"
    /\ SubmissionAnswered({200})
    /\ statusJobs # {}
    /\ polls >= 1

(***************************************************************************)
(* C4                                                                      *)
(***************************************************************************)
\* a JSON object whose status is neither 'completed' nor a terminal failure
NonTerminalBody(b) ==
    /\ b.kind \in {"dict", "empty"}
    /\ b.status \notin TerminalFailures \cup {"completed"}

\* C4: no run makes a 61st status poll; and when the 60th poll (reached
\* only through 59 non-terminal answers) is answered non-terminal too,
\* translate_pdf returns False with exactly 60 polls made and no download.
C4_SixtyNonTerminalPollsThenFalse ==
    /\ polls <= 60
    /\ (PollAnswered /\ polls = 60 /\ NonTerminalBody(ret.body)) =>
          /\ pc = "done"
          /\ result = "False"
          /\ downloads = 0
          /\ dlResp = NoDownload

\* a run that ended on the 60th non-terminal status answer
C4_Witness ==
    /\ pc = "done"
    /\ PollAnswered
    /\ polls = 60
    /\ pollWaits = 59
    /\ ret.body.kind = "dict"
    /\ ret.body.status = "processing"
    /\ result = "False"

(***************************************************************************)
(* C5                                                                      *)
(***************************************************************************)
\* C5: once a status call has returned 'completed' or a terminal failure,
\* no further status request is issued; after a terminal failure the run
\* is over at that poll, with False and without a download.
C5_NoPollAfterFinalStatus ==
    /\ reqsAfterFinal = 0
    /\ (finalSeen # PyNone) => (pc \in {"returned", "download", "done"})
    /\ (finalSeen.status \in TerminalFailures /\ pc # "returned") =>
          /\ pc = "done"
          /\ result = "False"
          /\ downloads = 0
          /\ dlResp = NoDownload
          /\ polls = i + 1

\* a run that ended on 'enqueue_failed' at its second poll
C5_Witness ==
    /\ pc = "done"
    /\ finalSeen.status = "enqueue_failed"
    /\ polls = 2
    /\ result = "False"

(***************************************************************************)
(* C6                                                                      *)
(***************************************************************************)
\* C6: after a status answer 'completed' with no or an empty download_url,
\* translate_pdf returns False; no download request, no write of the output
\* file and no further status request is ever made.
C6_CompletedWithoutUrlFails ==
    (finalSeen.status = "completed" /\ ~FieldSet(finalSeen.download_url)) =>
        /\ pc \in {"returned", "done"}
        /\ (pc = "done") => (result = "False")
        /\ downloads = 0
        /\ dlResp = NoDownload
        /\ writes = 0
        /\ outfile \in {NoFile, "OLD"}
        /\ reqsAfterFinal = 0

\* a run that ended on 'completed' with an empty download_url
C6_Witness ==
    /\ pc = "done"
    /\ finalSeen.status = "completed"
    /\ finalSeen.download_url = ""
    /\ result = "False"
    /\ polls = 3

(***************************************************************************)
(* C7                                                                      *)
(***************************************************************************)
\* make_api_request has been called
InCall == phase # "none"

\* the current logical call is over (it returned or raised)
CallEnded == InCall /\ pc # "request"

\* C7: in one logical call the k-th timeout (k < 3) is followed by a wait of
\* 5*k seconds and one more request, with attempt k+1; a timeout on attempt
\* 3 ends the call with (None, None); the call issues at most 3 requests and
\* hands its caller what the last attempt produced.
C7_TimeoutRetryWithLinearBackoff ==
    InCall =>
        /\ attempt \in 1..3
        /\ callReqs <= 3
        /\ callReqs = (IF pc = "request" THEN attempt - 1 ELSE attempt)
        /\ Len(callWaits) = attempt - 1
        /\ \A k \in 1..Len(callWaits) : callWaits[k] = 5 * k
        /\ (pc = "request" /\ attempt > 1) => (lastOutcome.kind = "timeout")
        /\ (CallEnded /\ lastOutcome.kind = "timeout") =>
              /\ attempt = 3
              /\ ret = [act |-> "return", body |-> PyNone, code |-> NoCode]
        /\ (CallEnded /\ lastOutcome.kind = "response" /\ lastOutcome.code < 400) =>
              /\ ret.act = "return"
              /\ ret.code = lastOutcome.code
              /\ ret.body = ParseJson(lastOutcome.raw)

\* a call that gave up after three timeouts, having waited 5 and 10 seconds
C7_Witness ==
    /\ CallEnded
    /\ lastOutcome.kind = "timeout"
    /\ callReqs = 3
    /\ callWaits = <<5, 10>>
    /\ ret.act = "return"
    /\ ret.code = NoCode

(***************************************************************************)
(* C8                                                                      *)
(***************************************************************************)
\* C8 (as claimed): a call that ends on a response with a status code below
\* 500 returns without a retry: (None, 401) for 401 and (parsed body, code)
\* for 403, 429, any other 4xx and 2xx/3xx, the parsed body being None when
\* the body is not JSON.
C8_ResponseClassification ==
    (CallEnded /\ lastOutcome.kind = "response" /\ lastOutcome.code < 500) =>
        /\ ret.act = "return"
        /\ ret.code = lastOutcome.code
        /\ ret.body = (IF lastOutcome.code = 401 THEN PyNone
                       ELSE ParseJson(lastOutcome.raw))
        /\ (lastOutcome.raw.kind = "text") => (ret.body = PyNone)
        /\ callReqs = attempt

(***************************************************************************)
(* C9                                                                      *)
(***************************************************************************)
\* a 5xx response, a connection failure or another transport exception
NonTimeoutFailure(o) ==
    \/ o.kind \in {"connection_error", "other_exception"}
    \/ (o.kind = "response" /\ 500 <= o.code /\ o.code < 600)

\* C9: a request that ends in a 5xx response, a connection failure or any
\* other non-timeout transport exception ends the call with (None, None):
\* it is the last request of the call and no wait follows it, whatever the
\* attempt number.
C9_OnlyTimeoutsAreRetried ==
    (InCall /\ NonTimeoutFailure(lastOutcome)) =>
        /\ CallEnded
        /\ ret = [act |-> "return", body |-> PyNone, code |-> NoCode]
        /\ callReqs = attempt
        /\ Len(callWaits) = attempt - 1

\* a connection failure on the second attempt of a call
C9_Witness ==
    /\ pc = "returned"
    /\ lastOutcome.kind = "connection_error"
    /\ attempt = 2
    /\ callReqs = 2
    /\ callWaits = <<5>>
    /\ ret.code = NoCode

(***************************************************************************)
(* C10                                                                     *)
(***************************************************************************)
\* API key, input document and a CSV with a language_code header
ValidBatchInputs ==
    /\ b_in.api_key
    /\ b_in.input_pdf
    /\ b_in.csv.exists
    /\ b_in.csv.header = "language_code"

\* C10 (as claimed): given valid inputs and a CSV with rows, a batch run
\* that is over has finished without raising and has run translate_pdf once
\* per CSV row, in CSV order.
C10_BatchRunsEveryLanguage ==
    (ValidBatchInputs /\ b_in.csv.rows # <<>> /\ b_pc \notin {"import", "main", "loop"}) =>
        /\ b_pc = "finished"
        /\ b_runs = b_in.csv.rows

(***************************************************************************)
(* C11: the batch driver aborts, with translate_pdf run for no language    *)
(* and no network call made, whenever the API key is missing, the input    *)
(* document is absent, the CSV is absent, or the CSV has no language_code  *)
(* header (an empty CSV included).                                         *)
(***************************************************************************)
InvalidBatchInputs ==
    \/ ~b_in.api_key
    \/ ~b_in.input_pdf
    \/ ~b_in.csv.exists
    \/ b_in.csv.header # "language_code"

\* no HTTP request was issued and translate_pdf is not running
NoNetworkCall ==
    /\ pc = "idle"
    /\ submitCalls = 0
    /\ callReqs = 0
    /\ polls = 0
    /\ downloads = 0

\* C11: with an argument or the CSV invalid, the driver's only step is the
\* abort: translate_pdf is called for no language and no request is issued
C11_InvalidInputsAbortBeforeAnyRun ==
    InvalidBatchInputs =>
        /\ b_pc \in {"main", "aborted"}
        /\ b_runs = <<>>
        /\ b_prevJobs = {}
        /\ NoNetworkCall

\* an empty CSV, everything else valid, ended in the abort
C11_Witness ==
    /\ b_pc = "aborted"
    /\ b_in.api_key
    /\ b_in.input_pdf
    /\ b_in.csv.exists
    /\ b_in.csv.header = ""
    /\ b_runs = <<>>
    /\ NoNetworkCall

(***************************************************************************)
(* C12: whatever step fails (missing input file, rejected or malformed     *)
(* submission, authentication, quota, rate-limit, client or server error,  *)
(* transport error, terminal job status, poll budget exhausted, download   *)
(* error, failure creating the output directory or writing the output      *)
(* file), translate_pdf returns False and propagates no exception.         *)
(***************************************************************************)
\* C12: a run on a missing or readable input document ends with a returned
\* value, and with False whenever the output file was not written in full
C12_EveryFailureReturnsFalse ==
    (pc = "done" /\ pdfState \in {"missing", "readable"}) =>
        /\ result \in {"True", "False"}
        /\ (writes = 0 \/ outfile = Truncated) => result = "False"

(***************************************************************************)
(* C13: a poll answered with a body whose status is neither 'completed'    *)
(* nor a terminal failure counts as in progress: while fewer than 60 polls *)
(* were made the driver waits and polls again.  That covers unknown status *)
(* strings, bodies with no status field, and bodies that come with a 403,  *)
(* 429 or other 4xx code.                                                  *)
(***************************************************************************)
\* a response with a body (a JSON object, empty or not) that names neither
\* 'completed' nor a terminal failure, under a code other than 401 and 5xx
InProgressAnswer(o) ==
    /\ o.kind = "response"
    /\ o.code # 401
    /\ o.code < 500
    /\ HasGet(ParseJson(o.raw))
    /\ ParseJson(o.raw).status \notin TerminalFailures \cup {"completed"}

\* C13: polling ends on an in-progress answer only when that answer was the
\* 60th, and every earlier poll was followed by one wait
C13_BodyWithoutFinalStatusPollsAgain ==
    (phase = "poll" /\ pc = "done" /\ InProgressAnswer(lastOutcome)) =>
        /\ polls = max_polls
        /\ pollWaits = max_polls - 1
        /\ result = "False"

(***************************************************************************)
(* C14: a status poll whose helper call returns no body (401, unparseable  *)
(* body, 5xx, connection error, timeouts exhausted) makes translate_pdf    *)
(* return False at once: no further status request and no download,        *)
(* however many of the 60 polls remain.                                    *)
(***************************************************************************)
\* what the service did to the last HTTP request of a helper call, on its
\* attempt att, is one of the cases in which the helper hands back no body
NullBodyOutcome(o, att) ==
    \/ o.kind \in {"connection_error", "other_exception"}
    \/ o.kind = "timeout" /\ att = max_attempts
    \/ o.kind = "response" /\ o.code = 401
    \/ o.kind = "response" /\ o.code >= 500
    \/ o.kind = "response" /\ ParseJson(o.raw) = PyNone

\* the helper returned from a status call without a body
PollReturnedNoBody ==
    /\ phase = "poll"
    /\ pc = "returned"
    /\ ret.body = PyNone

\* C14: each of the listed outcomes makes the status call return no body,
\* and the step after such a return ends the run with False, with no
\* further poll, no wait and no download
C14_NullPollBodyFailsAtOnce ==
    /\ [](phase = "poll" /\ pc = "returned" /\ NullBodyOutcome(lastOutcome, attempt)
            => ret.body = PyNone)
    /\ [][PollReturnedNoBody =>
            /\ pc' = "done"
            /\ result' = "False"
            /\ polls' = polls
            /\ pollWaits' = pollWaits
            /\ statusJobs' = statusJobs
            /\ downloads' = 0
            /\ writes' = 0]_vars

\* the second of 60 polls was answered 401 and the run ended with False
C14_Witness ==
    /\ pc = "done"
    /\ phase = "poll"
    /\ lastOutcome.kind = "response"
    /\ lastOutcome.code = 401
    /\ ret.body = PyNone
    /\ polls = 2
    /\ downloads = 0
    /\ result = "False"

(***************************************************************************)
(* C15: a retried request is the same call: same method, endpoint and      *)
(* data, and the same file payload.  Every retry of the submission upload  *)
(* sends the full document, not the rest of an already-read file stream.   *)
(***************************************************************************)
\* C15: every HTTP request of the submission call uploaded the full document
C15_RetryUploadsFullDocument ==
    \A k \in 1..Len(callUploads) : callUploads[k] = "full"

(***************************************************************************)
(* C16: in the download step a timeout, any other transport error, or a    *)
(* response whose status code is not 2xx makes translate_pdf return False  *)
(* without creating or writing the output file; the download is attempted  *)
(* exactly once.                                                           *)
(***************************************************************************)
\* the download timed out, failed in transport, or was answered non-2xx
DownloadFailed ==
    \/ dlResp.kind \in {"timeout", "other_exception"}
    \/ dlResp.kind = "response" /\ ~(200 <= dlResp.code /\ dlResp.code < 300)

\* C16: at most one download request, and a failed one ends the run with
\* False and the output path untouched
C16_FailedDownloadReturnsFalseUnwritten ==
    /\ downloads <= 1
    /\ (pc = "done" /\ downloads = 1 /\ DownloadFailed) =>
            /\ result = "False"
            /\ writes = 0

(***************************************************************************)
(* C17: every status request of a run of translate_pdf uses the job id of  *)
(* that run's own accepted submission; across the languages of a batch no  *)
(* status request uses a job id obtained for another language; and each    *)
(* translation request makes exactly one logical submission.               *)
(***************************************************************************)
\* C17: once a run is past its file check it has made one submission call;
\* the job ids of its status requests are the one its submission's answer
\* carried, whatever job ids the earlier languages obtained
C17_StatusRequestsUseOwnJobId ==
    /\ submitCalls <= 1
    /\ phase # "none" => submitCalls = 1
    /\ polls >= 1 =>
          /\ SubmissionAnswered({200, 202})
          /\ job_id = submitResp.raw.job_id
    /\ statusJobs # {} =>
          /\ polls >= 1
          /\ statusJobs = {submitResp.raw.job_id}
          /\ statusJobs \cap (b_prevJobs \ {submitResp.raw.job_id}) = {}

\* the second language of a batch, whose submission obtained j2 after the
\* first language's obtained j1, is at its second status call
C17_Witness ==
    /\ b_pc = "call"
    /\ Len(b_runs) = 2
    /\ b_prevJobs = {"j1"}
    /\ submitCalls = 1
    /\ submitResp.raw.job_id = "j2"
    /\ polls = 2
    /\ callReqs = 1
    /\ statusJobs = {"j2"}

(***************************************************************************)
(* C18: analyze_pdf_main makes exactly one logical helper call, to the     *)
(* analysis endpoint, and never polls or downloads; it reports success     *)
(* only for status 200 with a true success flag, reports the service's     *)
(* error code and message for a body with an explicit false success flag,  *)
(* and emits a generic failure log in every other case.                    *)
(***************************************************************************)
\* the helper's answer is status 200 with an object whose success is true
AnalysisSucceeded ==
    /\ a_ret.code = 200
    /\ a_ret.body.kind = "dict"
    /\ a_ret.body.success = "true"

\* the helper's answer is an object whose success is false
AnalysisFlaggedFailure ==
    /\ a_ret.body.kind = "dict"
    /\ a_ret.body.success = "false"

\* C18: on a readable document the function ends by returning, after one
\* helper call of at most three requests and no status or download
\* request, with the report the helper's answer calls for; a helper call
\* that returned no status code has logged its own error
C18_AnalyzeReportsOnce ==
    (a_pc = "done" /\ a_pdf = "readable") =>
        /\ a_calls = 1
        /\ a_reqs \in 1..max_attempts
        /\ polls = 0
        /\ downloads = 0
        /\ a_result = "returned"
        /\ a_log = "success" <=> AnalysisSucceeded
        /\ a_log = "api_error" <=> AnalysisFlaggedFailure
        /\ (~AnalysisSucceeded /\ ~AnalysisFlaggedFailure) =>
                \/ a_log = "generic"
                \/ a_log = "none" /\ a_ret.code = NoCode

(***************************************************************************)
(* C19: translate_pdf terminates whatever the service does.  Every helper  *)
(* call starts with attempt 1, so a run issues at most 3 submission HTTP   *)
(* requests, at most 60 logical status polls (at most 180 status HTTP      *)
(* requests) and at most 1 download request.                               *)
(***************************************************************************)
\* the counts of a run so far are within the claimed limits, and a helper
\* call that has sent nothing yet is at attempt 1
RunWithinLimits ==
    /\ attempt \in 1..max_attempts
    /\ (pc = "request" /\ callReqs = 0) => attempt = 1
    /\ callReqs <= max_attempts
    /\ submitCalls <= 1
    /\ polls <= max_polls
    /\ statusHttp <= max_attempts * max_polls
    /\ downloads <= 1

\* C19: every run stays within the limits and reaches its end
C19_TerminatesWithinLimits ==
    /\ []RunWithinLimits
    /\ <>(pc = "done")

\* a run that ended after 60 polls of 3 HTTP requests each
C19_Witness ==
    /\ pc = "done"
    /\ polls = max_polls
    /\ statusHttp = max_attempts * max_polls
    /\ callReqs = max_attempts
    /\ submitCalls = 1

(***************************************************************************)
(* C20: the poll-interval wait happens only between two consecutive status *)
(* polls: the waits number one less than the polls once a poll was made;   *)
(* no wait follows a poll that returned 'completed', a terminal failure or *)
(* no body, and none follows the 60th poll.                                *)
(***************************************************************************)
\* C20: no wait before the first poll, and at every moment from the first
\* poll on, the end of the run included, one wait fewer than polls
C20_WaitsOnlyBetweenPolls ==
    /\ polls = 0 => pollWaits = 0
    /\ polls >= 1 => pollWaits = polls - 1

\* the 60th poll returned 'completed' with a URL and the download was made
C20_Witness ==
    /\ pc = "done"
    /\ polls = max_polls
    /\ pollWaits = max_polls - 1
    /\ finalSeen.status = "completed"
    /\ downloads = 1

====
